---- MODULE Spec2Model ----
(***************************************************************************)
(* Model of the video compressor: the Tk front controller (app/gui.py),    *)
(* its task queue and two worker threads, and compress_video with its      *)
(* one- and two-pass encoder runs (app/compressor.py).                     *)
(*                                                                         *)
(* Sizes are measured in tenths of a MB, durations in whole seconds,       *)
(* bitrate multipliers in hundredths.  Text typed into an Entry widget is  *)
(* a sequence of one-character strings; the user may retype an entry at    *)
(* any moment, so a handler that reads one takes its text as an input.     *)
(* A path is a record                                                      *)
(* [stem, tag, n, ext]: "a.mp4" is ["a", "", 0, ".mp4"], and               *)
(* "amedium_compressed_1.mp4" is ["a", "medium", 1, ".mp4"].               *)
(***************************************************************************)
EXTENDS Integers, Sequences, FiniteSets, TLC

\* Bounds of the model.
MaxJobs == 2          \* submissions (file picks plus link clicks) per run
MaxKbps == 720        \* source bitrates 0..MaxKbps of the planner runs
MaxTarget == 11       \* target sizes -1..MaxTarget MB of the planner runs
MaxDuration == 100    \* source durations 1..MaxDuration s of the planner runs

\* ------------------------------------------------------------------ presets

\* app/presets.py PRESETS; video_kbps_mult in hundredths.
PRESETS ==
  [light  |-> [max_height |-> 1080, mult100 |-> 100, crf |-> 20, preset |-> "slow"],
   medium |-> [max_height |-> 720,  mult100 |-> 75,  crf |-> 23, preset |-> "slow"],
   strong |-> [max_height |-> 480,  mult100 |-> 50,  crf |-> 28, preset |-> "medium"]]

PresetNames == DOMAIN PRESETS

\* get_preset raises KeyError for a name outside the table.
PresetKnown(name) == name \in PresetNames

\* The name handed to set_preset in a run of the application: one that is
\* not in the table (set_preset takes any string).  The application starts
\* on "medium"; the planner runs take every name of the table.
PresetInputs == {"webm"}

\* ------------------------------------------------------------------ text

Digits == {"0", "1", "2", "3", "4", "5", "6", "7", "8", "9"}

DigitVal(c) ==
  CASE c = "0" -> 0 [] c = "1" -> 1 [] c = "2" -> 2 [] c = "3" -> 3
    [] c = "4" -> 4 [] c = "5" -> 5 [] c = "6" -> 6 [] c = "7" -> 7
    [] c = "8" -> 8 [] c = "9" -> 9

RECURSIVE LStrip(_)
LStrip(s) == IF s # <<>> /\ Head(s) = " " THEN LStrip(Tail(s)) ELSE s

RECURSIVE RStrip(_)
RStrip(s) ==
  IF s # <<>> /\ s[Len(s)] = " " THEN RStrip(SubSeq(s, 1, Len(s) - 1)) ELSE s

\* str.strip()
Strip(s) == RStrip(LStrip(s))

RECURSIVE DigitsVal(_)
DigitsVal(s) ==
  IF s = <<>> THEN 0 ELSE 10 * DigitsVal(SubSeq(s, 1, Len(s) - 1)) + DigitVal(s[Len(s)])

AllDigits(s) == s # <<>> /\ \A k \in 1..Len(s) : s[k] \in Digits

\* int(raw): an optional sign and at least one digit, or ValueError.
IsIntLiteral(s) ==
  IF s # <<>> /\ Head(s) \in {"-", "+"} THEN AllDigits(Tail(s)) ELSE AllDigits(s)

IntOf(s) ==
  IF Head(s) = "-" THEN 0 - DigitsVal(Tail(s))
  ELSE IF Head(s) = "+" THEN DigitsVal(Tail(s))
  ELSE DigitsVal(s)

\* Optional[int]
None == [some |-> FALSE, val |-> 0]
Some(v) == [some |-> TRUE, val |-> v]

\* Text the user types into the target-size entry (blank, not a number,
\* " 10") and into the link entry (blank, a link).
RawInputs == { <<>>, <<"x">>, <<" ", "1", "0">> }
LinkInputs == { <<" ">>, <<"u", " ">> }

\* ------------------------------------------------------------------ files

Path(stem, tag, n, ext) == [stem |-> stem, tag |-> tag, n |-> n, ext |-> ext]
NoPath == Path("", "", 0, "")

FileA == Path("a", "", 0, ".mp4")
FileB == Path("b", "", 0, ".mkv")
FileDl == Path("dl", "", 0, ".mp4")

\* The first-pass statistics files, relative to the working directory.
StatsLog == Path("ffmpeg2pass-0", "", 0, ".log")
StatsTree == Path("ffmpeg2pass-0", "", 0, ".log.mbtree")
LogFiles == << StatsLog, StatsTree >>

\* What askopenfilename returns: a video, a file without a video stream, or
\* NoPath when the dialog is cancelled.
PickableFiles == {FileA, FileB, NoPath}

\* What get_video_info finds in a file: the exception it raises ("" for
\* none), the duration in seconds, the bitrate in kbps, the size in tenths
\* of a MB.
Info(exc, duration, kbps, size10) ==
  [exc |-> exc, duration |-> duration, kbps |-> kbps, size10 |-> size10]

\* The videos of a run of the application: a.mp4 is 9.9 MB and 100 s at
\* 1000 kbps, the download is 9.7 MB with no bitrate in its header, and
\* b.mkv has no video stream.
Videos ==
  (FileA :> Info("", 100, 1000, 99)) @@ (FileDl :> Info("", 60, 0, 97))
    @@ (FileB :> Info("ValueError", 1, 0, 1))

\* os.path.exists / the loop of output_filename: the path itself when it is
\* free, else the first path_<counter> that is free, counter = 1, 2, ...
FirstFree(path, files) ==
  CHOOSE k \in 1..(Cardinality(files) + 1) :
    /\ [path EXCEPT !.n = k] \notin files
    /\ \A m \in 1..(k - 1) : [path EXCEPT !.n = m] \in files

output_filename(path, files) ==
  IF path \notin files THEN path ELSE [path EXCEPT !.n = FirstFree(path, files)]

\* os.path.splitext(file)[0] + str(current_preset) + "_compressed.mp4"
CompressedName(file, preset) == Path(file.stem, preset, 0, ".mp4")

\* ------------------------------------------------------------------ planner

Max(a, b) == IF a >= b THEN a ELSE b

\* int(x / d) for d > 0: Python's int() truncates toward zero.
IntTrunc(x, d) == IF x >= 0 THEN x \div d ELSE 0 - ((0 - x) \div d)

audio_kbps == 96

\* Line 86: target_mb is not None and src_size_mb <= target_mb - 0.2.
AlreadySmall(target, size10) == target.some /\ size10 <= target.val * 10 - 2

\* Line 91: "if target_mb:", the truth value of an Optional[int].
TwoPassMode(target) == target.some /\ target.val # 0

\* The target-size bitrate without its floor.
TargetVideoKbpsNoFloor(target_mb, duration) ==
  IntTrunc(target_mb * 8192, duration) - audio_kbps

\* Lines 93-94.
TargetVideoKbps(target_mb, duration) ==
  Max(IntTrunc(target_mb * 8192, duration) - audio_kbps, 300)

\* Lines 114-117.
QualityVideoKbps(src_kbps, mult100) ==
  IF src_kbps # 0 THEN Max((src_kbps * mult100) \div 100, 350) ELSE 1200

\* The skip test with < for <=.
QualitySkipStrict(src_kbps, video_kbps) == src_kbps # 0 /\ src_kbps < video_kbps

\* Line 120.
QualitySkip(src_kbps, video_kbps) == src_kbps # 0 /\ src_kbps <= video_kbps

\* ------------------------------------------------------------------ state

NumWorkers == 2
Workers == 1..NumWorkers

NoJob == [id |-> 0, input |-> NoPath, output |-> NoPath, preset |-> "", target |-> None]

\* A worker thread between two jobs.
Idle == [pc |-> "get", job |-> NoJob, kbps |-> 0, runs |-> <<>>, i |-> 0, exc |-> ""]

VARIABLES
  task_queue,      \* Queue(): the job tuples waiting, oldest first
  unfinished,      \* Queue.unfinished_tasks
  current_preset,  \* CompressorApp.current_preset
  status,          \* status_var, as last set through set_status
  log,             \* the lines written to the log Text
  fs,              \* the paths that exist on disk
  media,           \* what a probe of each video file returns
  downloads,       \* process_video threads that are still downloading
  jobState,        \* per submitted job: Queued, Running, Succeeded, Failed
  gets,            \* per submitted job: how often a worker dequeued it
  wk               \* per worker thread: its position and locals

vars == << task_queue, unfinished, current_preset, status, log, fs, media, downloads,
           jobState, gets, wk >>

Status(kind, arg) == [kind |-> kind, arg |-> arg]
\* A line of the log: what it reports and the job it is about (0: none).
Line(kind, id) == [kind |-> kind, id |-> id]

\* log_msg: the line is handed to the Tk event loop, which inserts it.
LogAdd(lines, line) == lines \cup {line}

\* After CompressorApp(), build_ui() and start_workers(2).
Init ==
  /\ task_queue = <<>>
  /\ unfinished = 0
  /\ current_preset = "medium"
  /\ status = Status("Ready", "")
  /\ log = {}
  /\ fs = {FileA, FileB}
  /\ media = Videos
  /\ downloads = 0
  /\ jobState = <<>>
  /\ gets = <<>>
  /\ wk = [w \in Workers |-> Idle]

\* Submissions so far, counting the downloads still running.
Submissions == Len(jobState) + downloads

\* ------------------------------------------------------------------ front controller

\* set_preset
SetPreset(preset) ==
  /\ current_preset' = preset
  /\ status' = Status("Preset", preset)
  /\ UNCHANGED media
  /\ UNCHANGED << task_queue, unfinished, log, fs,
                  downloads, jobState, gets, wk >>

\* get_target_mb: the value returned and whether the error status is set.
TargetInvalid(entry) == Strip(entry) # <<>> /\ ~IsIntLiteral(Strip(entry))
get_target_mb(entry) ==
  IF Strip(entry) = <<>> THEN None
  ELSE IF IsIntLiteral(Strip(entry)) THEN Some(IntOf(Strip(entry)))
  ELSE None

\* A put on a LIFO queue: the newest tuple is handed out first.
QueuePutFront(q, job) == <<job>> \o q

\* Queue.put: the tuple joins the end of the FIFO queue.
QueuePut(q, job) == Append(q, job)

\* task_queue.put of a new job tuple, with the "Target size" log line and the
\* status get_target_mb may have set.
Enqueue(input, output, entry) ==
  LET id == Len(jobState) + 1
      job == [id |-> id, input |-> input, output |-> output,
              preset |-> current_preset, target |-> get_target_mb(entry)]
  IN /\ task_queue' = QueuePut(task_queue, job)
     /\ unfinished' = unfinished + 1
     /\ jobState' = Append(jobState, "Queued")
     /\ gets' = Append(gets, 0)
     /\ log' = LogAdd(log, Line("target", id))
     /\ status' = IF TargetInvalid(entry) THEN Status("Error", "Target MB must be a number")
                  ELSE status

\* choose_file
ChooseFile(file_path, entry) ==
  /\ Submissions < MaxJobs
  /\ IF file_path = NoPath
       THEN /\ status' = Status("Error", "No file selected")
            /\ log' = LogAdd(log, Line("nofile", 0))
            /\ UNCHANGED << task_queue, unfinished, jobState, gets >>
       ELSE Enqueue(file_path,
                    output_filename(CompressedName(file_path, current_preset), fs),
                    entry)
  /\ UNCHANGED media
  /\ UNCHANGED << current_preset, fs, downloads, wk >>

\* on_button_click: starts a process_video thread unless the link is blank.
OnButtonClick(link) ==
  /\ Submissions < MaxJobs
  /\ IF Strip(link) = <<>>
       THEN /\ status' = Status("Error", "Enter a valid URL")
            /\ UNCHANGED downloads
       ELSE /\ downloads' = downloads + 1
            /\ UNCHANGED status
  /\ UNCHANGED media
  /\ UNCHANGED << task_queue, unfinished, current_preset,
                  log, fs, jobState, gets, wk >>

\* process_video, from the end of download_video on: the download either
\* raises (the thread ends, nothing is queued) or leaves the file on disk.
ProcessVideo(downloaded, entry) ==
  /\ downloads > 0
  /\ downloads' = downloads - 1
  /\ IF downloaded
       THEN /\ fs' = fs \cup {FileDl}
            /\ Enqueue(FileDl,
                       output_filename(CompressedName(FileDl, current_preset),
                                       fs \cup {FileDl}),
                       entry)
       ELSE UNCHANGED << task_queue, unfinished, jobState, gets, log, status, fs >>
  /\ UNCHANGED media
  /\ UNCHANGED << current_preset, wk >>

\* ------------------------------------------------------------------ workers

\* Exit codes of an encoder run: success, failure.
ExitCodes == {0, 1}

\* "except Exception": every exception compress_video can raise derives from
\* Exception (KeyError, ValueError, subprocess.CalledProcessError,
\* FileNotFoundError); KeyboardInterrupt and SystemExit do not.
ExceptionClasses == {"KeyError", "ValueError", "CalledProcessError", "FileNotFoundError"}

\* An except clause that names only the exceptions compress_video documents.
CaughtDocumentedOnly(exc) == exc \in {"KeyError", "ValueError"}

Caught(exc) == exc \in ExceptionClasses

\* A get that hands out the oldest tuple and leaves it in the queue.
QueueRestPeek(q) == q

\* Queue.get: the oldest tuple is handed out and leaves the queue.
QueueRest(q) == Tail(q)

Set(w, rec) == wk' = [wk EXCEPT ![w] = rec]
Raise(w, exc) == [wk[w] EXCEPT !.pc = "except", !.exc = exc]
Ran(w, what) == Append(wk[w].runs, what)
Run(kind, kbps) == [kind |-> kind, kbps |-> kbps]

\* Lines 44-47: dequeue a job, set the status, log the start.
WorkerGet(w) ==
  /\ wk[w].pc = "get"
  /\ task_queue # <<>>
  /\ LET job == Head(task_queue)
     IN /\ task_queue' = QueueRest(task_queue)
        /\ Set(w, [Idle EXCEPT !.pc = "compress", !.job = job])
        /\ jobState' = [jobState EXCEPT ![job.id] = "Running"]
        /\ gets' = [gets EXCEPT ![job.id] = @ + 1]
        /\ status' = Status("Compressing", job.preset)
        /\ log' = LogAdd(log, Line("start", job.id))
  /\ UNCHANGED media
  /\ UNCHANGED << unfinished, current_preset, fs, downloads >>

\* compress_video up to its first encoder run: the preset lookup, the probe,
\* the plan, and the copy when no encode is needed.
CompressStart(w) ==
  /\ wk[w].pc = "compress"
  /\ LET job == wk[w].job
         info == media[job.input]
         copy == /\ fs' = fs \cup {job.output}
                 /\ Set(w, [wk[w] EXCEPT !.pc = "ok", !.runs = Ran(w, Run("copy", 0))])
     IN IF ~PresetKnown(job.preset)
          THEN Set(w, Raise(w, "KeyError")) /\ UNCHANGED fs
        ELSE IF info.exc # ""
          THEN Set(w, Raise(w, info.exc)) /\ UNCHANGED fs
        ELSE IF AlreadySmall(job.target, info.size10)
          THEN copy
        ELSE IF TwoPassMode(job.target)
          THEN /\ Set(w, [wk[w] EXCEPT !.pc = "pass1",
                            !.kbps = TargetVideoKbps(job.target.val, info.duration)])
               /\ UNCHANGED fs
        ELSE LET video_kbps == QualityVideoKbps(info.kbps, PRESETS[job.preset].mult100)
             IN IF QualitySkip(info.kbps, video_kbps)
                  THEN copy
                  ELSE /\ Set(w, [wk[w] EXCEPT !.pc = "onepass", !.kbps = video_kbps])
                       /\ UNCHANGED fs
  /\ UNCHANGED media
  /\ UNCHANGED << task_queue, unfinished, current_preset, status, log, downloads, jobState, gets >>

\* Lines 188-193: the first pass.  It writes its statistics into the working
\* directory; a failing run may or may not have written them.
Pass1(w, rc, wrote) ==
  /\ wk[w].pc = "pass1"
  /\ fs' = IF rc = 0 \/ wrote THEN fs \cup {StatsLog, StatsTree} ELSE fs
  /\ Set(w, IF rc = 0
              THEN [wk[w] EXCEPT !.pc = "pass2", !.runs = Ran(w, Run("pass1", wk[w].kbps))]
              ELSE [Raise(w, "CalledProcessError") EXCEPT
                      !.runs = Ran(w, Run("pass1", wk[w].kbps))])
  /\ UNCHANGED media
  /\ UNCHANGED << task_queue, unfinished, current_preset, status, log, downloads, jobState, gets >>

\* Lines 194-199: the second pass reads the statistics and writes the output.
Pass2(w, rc) ==
  /\ wk[w].pc = "pass2"
  /\ LET ok == rc = 0 /\ StatsLog \in fs
     IN /\ fs' = IF ok THEN fs \cup {wk[w].job.output} ELSE fs
        /\ Set(w, IF ok
                    THEN [wk[w] EXCEPT !.pc = "clean_check", !.i = 1,
                                       !.runs = Ran(w, Run("pass2", wk[w].kbps))]
                    ELSE [Raise(w, "CalledProcessError") EXCEPT
                            !.runs = Ran(w, Run("pass2", wk[w].kbps))])
  /\ UNCHANGED media
  /\ UNCHANGED << task_queue, unfinished, current_preset, status, log, downloads, jobState, gets >>

\* After log file i: the next log file, or line 110 and the return.
AfterLogFile(w) ==
  IF wk[w].i < Len(LogFiles)
    THEN [wk[w] EXCEPT !.pc = "clean_check", !.i = @ + 1]
    ELSE [wk[w] EXCEPT !.pc = "ok", !.i = 0]

\* Line 107: os.path.exists(logfile).
CleanCheck(w) ==
  /\ wk[w].pc = "clean_check"
  /\ Set(w, IF LogFiles[wk[w].i] \in fs
              THEN [wk[w] EXCEPT !.pc = "clean_remove"]
              ELSE AfterLogFile(w))
  /\ UNCHANGED media
  /\ UNCHANGED << task_queue, unfinished, current_preset, status, log, fs, downloads, jobState, gets >>

\* Line 108: os.remove(logfile), FileNotFoundError when it is gone by now.
CleanRemove(w) ==
  /\ wk[w].pc = "clean_remove"
  /\ fs' = fs \ {LogFiles[wk[w].i]}
  /\ Set(w, IF LogFiles[wk[w].i] \in fs
              THEN AfterLogFile(w)
              ELSE Raise(w, "FileNotFoundError"))
  /\ UNCHANGED media
  /\ UNCHANGED << task_queue, unfinished, current_preset, status, log, downloads, jobState, gets >>

\* Lines 125-134: the single-pass encode.
OnePass(w, rc) ==
  /\ wk[w].pc = "onepass"
  /\ fs' = IF rc = 0 THEN fs \cup {wk[w].job.output} ELSE fs
  /\ Set(w, IF rc = 0
              THEN [wk[w] EXCEPT !.pc = "ok", !.runs = Ran(w, Run("single", wk[w].kbps))]
              ELSE [Raise(w, "CalledProcessError") EXCEPT
                      !.runs = Ran(w, Run("single", wk[w].kbps))])
  /\ UNCHANGED media
  /\ UNCHANGED << task_queue, unfinished, current_preset, status, log, downloads, jobState, gets >>

\* Line 54: compress_video returned; the success line is logged.
WorkerOk(w) ==
  /\ wk[w].pc = "ok"
  /\ log' = LogAdd(log, Line("done", wk[w].job.id))
  /\ jobState' = [jobState EXCEPT ![wk[w].job.id] = "Succeeded"]
  /\ Set(w, [wk[w] EXCEPT !.pc = "finally"])
  /\ UNCHANGED media
  /\ UNCHANGED << task_queue, unfinished, current_preset, status, fs, downloads, gets >>

\* Lines 56-58: an exception the except clause matches becomes the error
\* status and the error line; any other goes on to the finally block and out
\* of the thread.
WorkerExcept(w) ==
  /\ wk[w].pc = "except"
  /\ IF Caught(wk[w].exc)
       THEN /\ status' = Status("Error", wk[w].exc)
            /\ log' = LogAdd(log, Line("error", wk[w].job.id))
            /\ jobState' = [jobState EXCEPT ![wk[w].job.id] = "Failed"]
            /\ Set(w, [wk[w] EXCEPT !.pc = "finally", !.exc = ""])
       ELSE /\ Set(w, [wk[w] EXCEPT !.pc = "finally"])
            /\ UNCHANGED << status, log, jobState >>
  /\ UNCHANGED media
  /\ UNCHANGED << task_queue, unfinished, current_preset,
                  fs, downloads, gets >>

\* Lines 59-62: task_done, "Idle" when the queue is empty, and back to the
\* top of the loop (or out of the thread with an uncaught exception).
WorkerFinally(w) ==
  /\ wk[w].pc = "finally"
  /\ unfinished' = unfinished - 1
  /\ status' = IF task_queue = <<>> THEN Status("Idle", "") ELSE status
  /\ Set(w, IF wk[w].exc = "" THEN Idle ELSE [Idle EXCEPT !.pc = "dead"])
  /\ UNCHANGED media
  /\ UNCHANGED << task_queue, current_preset, log, fs,
                  downloads, jobState, gets >>

\* One step of worker thread w.
WorkerStep(w) ==
  \/ WorkerGet(w)
  \/ CompressStart(w)
  \/ \E rc \in ExitCodes, wrote \in BOOLEAN : Pass1(w, rc, wrote)
  \/ \E rc \in ExitCodes : Pass2(w, rc)
  \/ CleanCheck(w)
  \/ CleanRemove(w)
  \/ \E rc \in ExitCodes : OnePass(w, rc)
  \/ WorkerOk(w)
  \/ WorkerExcept(w)
  \/ WorkerFinally(w)

Next ==
  \/ \E preset \in PresetInputs : SetPreset(preset)
  \/ \E file_path \in PickableFiles, entry \in RawInputs : ChooseFile(file_path, entry)
  \/ \E link \in LinkInputs : OnButtonClick(link)
  \/ \E downloaded \in BOOLEAN, entry \in RawInputs : ProcessVideo(downloaded, entry)
  \/ \E w \in Workers : WorkerStep(w)

Spec == Init /\ [][Next]_vars

\* The threads are scheduled and every external process ends: a worker that
\* can take a step takes it.
FairSpec == Spec /\ \A w \in Workers : WF_vars(WorkerStep(w))

\* ------------------------------------------------------------------ planner runs

\* One job on a.mp4, submitted and waiting, for every preset with every
\* source bitrate (no target size), and for every preset with every target
\* size and source duration.
QualityCases ==
  {<<preset, None, Info("", 100, kbps, 99)>> :
     preset \in PresetNames, kbps \in 0..MaxKbps}
TargetCases ==
  {<<preset, Some(target), Info("", duration, 1000, 99)>> :
     preset \in PresetNames, target \in (0 - 1)..MaxTarget, duration \in 1..MaxDuration}

PlanInit ==
  \E case \in QualityCases \cup TargetCases :
    /\ media = [Videos EXCEPT ![FileA] = case[3]]
    /\ current_preset = case[1]
    /\ task_queue = QueuePut(<<>>, [id |-> 1, input |-> FileA,
                                    output |-> CompressedName(FileA, case[1]),
                                    preset |-> case[1], target |-> case[2]])
    /\ unfinished = 1
    /\ status = Status("Preset", case[1])
    /\ log = {Line("target", 1)}
    /\ fs = {FileA, FileB}
    /\ downloads = 0
    /\ jobState = <<"Queued">>
    /\ gets = <<0>>
    /\ wk = [w \in Workers |-> Idle]

PlanNext == \E w \in Workers : WorkerStep(w)

\* The worker pool on one submitted job.
PlanSpec == PlanInit /\ [][PlanNext]_vars

\* ------------------------------------------------------------------ claims

Terminal == {"Succeeded", "Failed"}
JobIds == 1..Len(jobState)
Held(w) == wk[w].job.id
RunKinds(w) == {wk[w].runs[k].kind : k \in 1..Len(wk[w].runs)}

\* The state of every job agrees with where the job is: waiting in the
\* queue exactly once and never dequeued, or held by exactly one worker after
\* exactly one dequeue, or finished, out of the queue and out of the workers.
ProcessedOnce ==
  /\ \A j \in JobIds :
       LET holders == {w \in Workers : Held(w) = j}
           waiting == {k \in 1..Len(task_queue) : task_queue[k].id = j}
       IN /\ gets[j] <= 1
          /\ jobState[j] = "Queued" =>
               gets[j] = 0 /\ Cardinality(waiting) = 1 /\ holders = {}
          /\ jobState[j] = "Running" =>
               gets[j] = 1 /\ waiting = {} /\ Cardinality(holders) = 1
          /\ jobState[j] \in Terminal =>
               gets[j] = 1 /\ waiting = {}
               /\ \A w \in holders : wk[w].pc = "finally"
  /\ \A w \in Workers : wk[w].pc # "dead"

\* Nothing is left Queued or Running once the queue is empty and every
\* worker is back waiting for a job.
Drained ==
  (task_queue = <<>> /\ \A w \in Workers : wk[w].pc = "get")
    => \A j \in JobIds : jobState[j] \in Terminal

\* C1: every submitted job eventually ends Succeeded or Failed, none is left
\* Queued or Running when the workers have drained the queue, and each job
\* is dequeued once and processed by one worker, never requeued.
C1_EveryJobProcessedOnce ==
  /\ [](ProcessedOnce /\ Drained)
  /\ \A j \in 1..MaxJobs :
       (Len(jobState) >= j) ~> (Len(jobState) >= j /\ jobState[j] \in Terminal)

\* Both workers were needed: two jobs are done, one Failed and one
\* Succeeded, and the pool is drained.
C1_Witness ==
  /\ Len(jobState) = 2
  /\ jobState[1] = "Failed" /\ jobState[2] = "Succeeded"
  /\ task_queue = <<>>
  /\ \A w \in Workers : wk[w].pc = "get"

StatsFiles == {StatsLog, StatsTree}

\* C2: once compress_video has returned or raised after a two-pass attempt
\* (its first pass was run), neither first-pass statistics file exists.
C2_StatsFilesRemoved ==
  \A w \in Workers :
    (wk[w].pc \in {"ok", "except"} /\ "pass1" \in RunKinds(w))
      => fs \cap StatsFiles = {}

\* The files the job on worker w has written or deleted so far, and the
\* files it has used in any way.
Wrote(w) ==
  (IF "pass1" \in RunKinds(w) THEN StatsFiles ELSE {})
    \cup (IF RunKinds(w) \cap {"copy", "pass2", "single"} # {}
            THEN {wk[w].job.output} ELSE {})
Used(w) ==
  Wrote(w) \cup (IF wk[w].pc \in {"get", "dead"} THEN {} ELSE {wk[w].job.input})
           \cup (IF "pass2" \in RunKinds(w) THEN StatsFiles ELSE {})
IsRunning(w) == Held(w) # 0 /\ jobState[Held(w)] = "Running"

\* C3: two jobs running on different workers share no file: neither has
\* written or deleted a file the other uses, its output path and its
\* first-pass statistics files included.
C3_NoSharedJobData ==
  \A w1, w2 \in Workers :
    (w1 # w2 /\ IsRunning(w1) /\ IsRunning(w2))
      => /\ Wrote(w1) \cap Used(w2) = {}
         /\ wk[w1].job.output # wk[w2].job.output

\* C4: an exception raised while a worker processes a job is caught in the
\* worker loop: the step that handles it sets the error status, writes the
\* error line and ends the job Failed; no worker thread ever ends; and the
\* worker comes back to the top of its loop, where it dequeues the next job.
C4_ErrorsCaughtAtWorker ==
  /\ [][\A w \in Workers :
          (wk[w].pc = "except" /\ wk'[w] # wk[w])
            => /\ status' = Status("Error", wk[w].exc)
               /\ Line("error", Held(w)) \in log'
               /\ jobState'[Held(w)] = "Failed"
               /\ wk'[w].pc = "finally" /\ wk'[w].exc = ""]_vars
  /\ [](\A w \in Workers : wk[w].pc # "dead")
  /\ \A w \in Workers : (wk[w].pc = "except") ~> (wk[w].pc = "get")
  /\ \A w \in Workers :
       (wk[w].pc = "get" /\ task_queue # <<>>) ~> (wk[w].pc # "get" \/ task_queue = <<>>)

\* A worker that failed its first job (the error line is in the log) is
\* processing the job submitted after it.
C4_Witness ==
  \E w \in Workers :
    /\ Len(jobState) = 2
    /\ jobState[1] = "Failed" /\ Line("error", 1) \in log
    /\ Held(w) = 2 /\ wk[w].pc = "compress"
    /\ \A v \in Workers \ {w} : Line("start", 1) \in log /\ wk[v].pc = "get"

\* C5: a step of choose_file or process_video that reads a target-size entry
\* which is not blank and not a number leaves the task queue as it was (and,
\* where get_target_mb is reached, sets the error status).
C5_InvalidTargetNotEnqueued ==
  [][\A entry \in RawInputs :
       TargetInvalid(entry) =>
         /\ \A file_path \in PickableFiles :
              ChooseFile(file_path, entry) =>
                /\ task_queue' = task_queue
                /\ file_path # NoPath =>
                     status' = Status("Error", "Target MB must be a number")
         /\ \A downloaded \in BOOLEAN :
              ProcessVideo(downloaded, entry) =>
                /\ task_queue' = task_queue
                /\ downloaded =>
                     status' = Status("Error", "Target MB must be a number")]_vars

\* C6: a job with a target size is never encoded in a single pass, and when
\* compress_video returns for it, it either copied the source (source size
\* <= target - 0.2) without running the encoder, or ran pass 1 and then
\* pass 2 at max(floor(target * 8192 / duration) - 96, 300) kbps.
C6_TargetSizeMode ==
  \A w \in Workers :
    wk[w].job.target.some =>
      /\ "single" \notin RunKinds(w)
      /\ wk[w].pc = "ok" =>
           LET info == media[wk[w].job.input]
               target == wk[w].job.target.val
               kbps == Max(((target * 8192) \div info.duration) - 96, 300)
           IN IF info.size10 <= target * 10 - 2
                THEN wk[w].runs = << Run("copy", 0) >>
                ELSE wk[w].runs = << Run("pass1", kbps), Run("pass2", kbps) >>

\* C7: a job without a target size, with a known preset, runs at
\* max(floor(bitrate * multiplier), 350) kbps, or 1200 kbps when the source
\* bitrate is 0; it copies the source and runs no encoder exactly when the
\* bitrate is non-zero and at most that; otherwise it runs the encoder once,
\* in a single pass.
C7_QualityMode ==
  \A w \in Workers :
    LET job == wk[w].job
        bitrate == media[job.input].kbps
        videoKbps == IF bitrate # 0
                       THEN Max((bitrate * PRESETS[job.preset].mult100) \div 100, 350)
                       ELSE 1200
    IN (Held(w) # 0 /\ ~job.target.some /\ job.preset \in PresetNames
          /\ wk[w].pc # "compress")
         => IF bitrate # 0 /\ bitrate <= videoKbps
              THEN wk[w].runs = << Run("copy", 0) >> /\ wk[w].pc \in {"ok", "finally"}
              ELSE \/ wk[w].pc = "onepass" /\ wk[w].runs = <<>> /\ wk[w].kbps = videoKbps
                   \/ /\ wk[w].pc \in {"ok", "except", "finally"}
                      /\ wk[w].runs = << Run("single", videoKbps) >>

\* The floor at work: the strong preset on a 699 kbps source gives 349 kbps,
\* and the single pass has run at 350.
C7_Witness ==
  \E w \in Workers :
    /\ wk[w].job.preset = "strong" /\ ~wk[w].job.target.some
    /\ media[wk[w].job.input].kbps = 699
    /\ wk[w].pc = "ok"
    /\ wk[w].runs = << Run("single", 350) >>

\* C8: every encoder run gets a video bitrate of at least 300 kbps when it
\* is a pass of a two-pass (target-size) encode and of at least 350 kbps
\* when it is a single-pass (quality) encode.
C8_BitrateFloor ==
  \A w \in Workers :
    \A k \in 1..Len(wk[w].runs) :
      LET run == wk[w].runs[k]
      IN /\ run.kind \in {"pass1", "pass2"} => run.kbps >= 300
         /\ run.kind = "single" => run.kbps >= 350

\* A target of 1 MB for 100 s of video leaves 81 - 96 kbps for the video;
\* both passes have run at the floor of 300.
C8_Witness ==
  \E w \in Workers :
    /\ wk[w].job.target = Some(1)
    /\ media[wk[w].job.input].duration = 100
    /\ wk[w].runs = << Run("pass1", 300), Run("pass2", 300) >>

\* C9: jobs are dequeued in the order they were put (job ids count the
\* puts): a job that has left the queue was put after no job still waiting,
\* and the queue holds its jobs oldest first.
C9_StartedInSubmissionOrder ==
  /\ \A a, b \in JobIds :
       (a < b /\ jobState[b] # "Queued") => jobState[a] # "Queued"
  /\ \A k \in 1..(Len(task_queue) - 1) : task_queue[k].id < task_queue[k + 1].id

\* Started in order, finished out of order: the second job is done while
\* the first is still running.
C9_Witness ==
  /\ Len(jobState) = 2
  /\ jobState[1] = "Running"
  /\ jobState[2] = "Succeeded"

\* C10: while the last status update is "Idle", no worker is processing a
\* job.
C10_IdleMeansNoJobRunning ==
  status.kind = "Idle" => \A j \in JobIds : jobState[j] # "Running"

====
